---- MODULE Spec2Model ----
(***************************************************************************)
(* The order slot-filling state machine of coffee-barista-agent.py:        *)
(* OrderState and the callable actions of BaristaAgent.                    *)
(*                                                                         *)
(* A Python str is a sequence of one-character strings, so that lower(),   *)
(* title(), join() and f-string concatenation are computed character by    *)
(* character.  An optional field (str | None) is None == <<>> or           *)
(* Some(s) == <<s>>.                                                       *)
(***************************************************************************)
EXTENDS Integers, Sequences, FiniteSets, TLC

\* ------------------------------------------------------------------ bounds
\* The wall clock runs over the whole seconds 0..MaxTime.
MaxTime == 1
\* add_extra is called at most MaxExtraCalls times on one order.
MaxExtraCalls == 2

\* ------------------------------------------------------------------- state
VARIABLES
  order,        \* order[a]: the OrderState of agent a (drink_type, size, milk, extras, name)
  extra_calls,  \* extra_calls[a]: the arguments add_extra received on agent a, in call order
  finalized,    \* finalized[a]: complete_order has saved agent a's order and returned success
  call,         \* call[a]: the last action called on agent a, with its arguments
  ret,          \* ret[a]: what that call returned or raised
  files,        \* the working directory: file name -> content
  now,          \* datetime.now(), in whole seconds
  snapshot      \* the dict a caller of OrderState.to_dict holds: <<>> or <<dict>>

vars == <<order, extra_calls, finalized, call, ret, files, now, snapshot>>

\* One BaristaAgent (and one OrderState) per job.
Agents == {1, 2}

\* ----------------------------------------------------------------- strings
Range(s) == { s[i] : i \in 1..Len(s) }

UpperCase == <<"A", "B", "C", "D", "E", "F", "G", "H", "I", "J", "K", "L", "M", "N", "O", "P", "Q", "R", "S", "T", "U", "V", "W", "X", "Y", "Z">>
LowerCase == <<"a", "b", "c", "d", "e", "f", "g", "h", "i", "j", "k", "l", "m", "n", "o", "p", "q", "r", "s", "t", "u", "v", "w", "x", "y", "z">>

is_upper(c) == c \in Range(UpperCase)
is_lower(c) == c \in Range(LowerCase)
is_cased(c) == is_upper(c) \/ is_lower(c)

\* the lower-case letter of each upper-case letter, and the reverse
ToLower ==
  [c \in Range(UpperCase) |-> LowerCase[CHOOSE i \in 1..Len(UpperCase) : UpperCase[i] = c]]
ToUpper ==
  [c \in Range(LowerCase) |-> UpperCase[CHOOSE i \in 1..Len(LowerCase) : LowerCase[i] = c]]

lower_char(c) == IF is_upper(c) THEN ToLower[c] ELSE c
upper_char(c) == IF is_lower(c) THEN ToUpper[c] ELSE c

\* str.lower()
lower(s) == [i \in 1..Len(s) |-> lower_char(s[i])]

\* str.title(): a cased character is upper-cased when the character before it
\* is not cased (or there is none), and lower-cased otherwise.
title(s) ==
  [i \in 1..Len(s) |->
     IF i > 1 /\ is_cased(s[i - 1]) THEN lower_char(s[i]) ELSE upper_char(s[i])]

\* sep.join(xs)
RECURSIVE join(_, _)
join(sep, xs) ==
  IF xs = <<>> THEN <<>>
  ELSE IF Len(xs) = 1 THEN xs[1]
  ELSE xs[1] \o sep \o join(sep, Tail(xs))

\* x in xs, for a list xs
in_list(x, xs) == \E i \in 1..Len(xs) : xs[i] = x

\* ------------------------------------------------------- optional strings
None == <<>>
Some(s) == <<s>>

\* bool(v) of a str | None: None and "" are false
truthy(v) == v # None /\ v[1] # <<>>

\* the text an f-string renders for a str | None
str(v) == IF v = None THEN <<"N", "o", "n", "e">> ELSE v[1]

\* -------------------------------------------------------------- OrderState
OrderState_init ==
  [drink_type |-> None, size |-> None, milk |-> None, extras |-> <<>>, name |-> None]

\* The list object self.extras of order a.  It is created once (line 28) and
\* only appended to, so whoever holds it reads what order[a].extras holds now.
ListOf(a) == [list |-> a]

\* to_dict writing the size under "milk"
to_dict_size_as_milk(a, t) ==
  [drinkType |-> order[a].drink_type,
   size      |-> order[a].size,
   milk      |-> order[a].size,
   extras    |-> ListOf(a),
   name      |-> order[a].name,
   timestamp |-> t]

\* OrderState.to_dict at clock value t.  "extras" is self.extras itself, not a
\* copy of it.
to_dict(a, t) ==
  [drinkType |-> order[a].drink_type,
   size      |-> order[a].size,
   milk      |-> order[a].milk,
   extras    |-> ListOf(a),
   name      |-> order[a].name,
   timestamp |-> t]

\* What a reader of dict d (json.dump, or any holder of it) finds in it now.
read_dict(d) == [d EXCEPT !.extras = order[d.extras.list].extras]

\* A caller takes order.to_dict() and keeps the dict.
call_to_dict(a) ==
  /\ snapshot' = <<to_dict(a, now)>>
  /\ UNCHANGED <<order, extra_calls, finalized, call, ret, files, now>>

\* is_complete testing "is not None" in place of the truth value
is_complete_not_none(a) ==
  /\ order[a].drink_type # None
  /\ order[a].size # None
  /\ order[a].milk # None
  /\ order[a].name # None

\* is_complete not asking for the name
is_complete_without_name(a) ==
  /\ truthy(order[a].drink_type)
  /\ truthy(order[a].size)
  /\ truthy(order[a].milk)

\* is_complete with any() in place of all()
is_complete_any(a) ==
  \/ truthy(order[a].drink_type)
  \/ truthy(order[a].size)
  \/ truthy(order[a].milk)
  \/ truthy(order[a].name)

is_complete(a) ==
  /\ truthy(order[a].drink_type)
  /\ truthy(order[a].size)
  /\ truthy(order[a].milk)
  /\ truthy(order[a].name)

\* get_missing_fields testing "is None" in place of "not"
get_missing_fields_is_none(a) ==
  LET m1 == IF order[a].drink_type = None THEN <<<<"d", "r", "i", "n", "k", " ", "t", "y", "p", "e">>>> ELSE <<>>
      m2 == IF order[a].size = None THEN Append(m1, <<"s", "i", "z", "e">>) ELSE m1
      m3 == IF order[a].milk = None THEN Append(m2, <<"m", "i", "l", "k", " ", "p", "r", "e", "f", "e", "r", "e", "n", "c", "e">>) ELSE m2
      m4 == IF order[a].name = None THEN Append(m3, <<"n", "a", "m", "e", " ", "f", "o", "r", " ", "t", "h", "e", " ", "o", "r", "d", "e", "r">>) ELSE m3
  IN  m4

\* get_missing_fields testing the name before the milk
get_missing_fields_name_first(a) ==
  LET m1 == IF ~truthy(order[a].drink_type) THEN <<<<"d", "r", "i", "n", "k", " ", "t", "y", "p", "e">>>> ELSE <<>>
      m2 == IF ~truthy(order[a].size) THEN Append(m1, <<"s", "i", "z", "e">>) ELSE m1
      m3 == IF ~truthy(order[a].name) THEN Append(m2, <<"n", "a", "m", "e", " ", "f", "o", "r", " ", "t", "h", "e", " ", "o", "r", "d", "e", "r">>) ELSE m2
      m4 == IF ~truthy(order[a].milk) THEN Append(m3, <<"m", "i", "l", "k", " ", "p", "r", "e", "f", "e", "r", "e", "n", "c", "e">>) ELSE m3
  IN  m4

get_missing_fields(a) ==
  LET m1 == IF ~truthy(order[a].drink_type) THEN <<<<"d", "r", "i", "n", "k", " ", "t", "y", "p", "e">>>> ELSE <<>>
      m2 == IF ~truthy(order[a].size) THEN Append(m1, <<"s", "i", "z", "e">>) ELSE m1
      m3 == IF ~truthy(order[a].milk) THEN Append(m2, <<"m", "i", "l", "k", " ", "p", "r", "e", "f", "e", "r", "e", "n", "c", "e">>) ELSE m2
      m4 == IF ~truthy(order[a].name) THEN Append(m3, <<"n", "a", "m", "e", " ", "f", "o", "r", " ", "t", "h", "e", " ", "o", "r", "d", "e", "r">>) ELSE m3
  IN  m4

\* ------------------------------------------------------------ BaristaAgent
Return(msg) == [kind |-> "return", value |-> msg]
Raise(exc) == [kind |-> "raise", value |-> exc]
NoReply == [kind |-> "none", value |-> <<>>]

Call(op, args) == [op |-> op, args |-> args]
NoCall == Call("none", <<>>)

\* _format_order_summary rendering the extras clause also when extras is empty
format_order_summary_always_extras(a) ==
  <<"O", "n", "e", " ">> \o str(order[a].size) \o <<" ">> \o str(order[a].drink_type) \o <<" ">>
    \o <<"w", "i", "t", "h", " ">> \o str(order[a].milk)
    \o <<" ", "w", "i", "t", "h", " ">> \o join(<<",", " ">>, order[a].extras)
    \o <<" ", "f", "o", "r", " ">> \o str(order[a].name)

format_order_summary(a) ==
  LET extras_str ==
        IF order[a].extras # <<>>
        THEN <<" ", "w", "i", "t", "h", " ">> \o join(<<",", " ">>, order[a].extras)
        ELSE <<>>
  IN  <<"O", "n", "e", " ">> \o str(order[a].size) \o <<" ">> \o str(order[a].drink_type) \o <<" ">>
        \o <<"w", "i", "t", "h", " ">> \o str(order[a].milk) \o extras_str
        \o <<" ", "f", "o", "r", " ">> \o str(order[a].name)

\* set_drink_type starting a fresh order for the new drink
set_drink_type_resets(a, drink) ==
  /\ call' = [call EXCEPT ![a] = Call("set_drink_type", <<drink>>)]
  /\ order' = [order EXCEPT ![a] = [OrderState_init EXCEPT !.drink_type = Some(lower(drink))]]
  /\ ret' = [ret EXCEPT ![a] = Return(<<"G", "r", "e", "a", "t", "!", " ", "O", "n", "e", " ">> \o drink \o <<" ", "c", "o", "m", "i", "n", "g", " ", "u", "p", ".">>)]
  /\ UNCHANGED <<extra_calls, finalized, files, now, snapshot>>

set_drink_type(a, drink) ==
  /\ call' = [call EXCEPT ![a] = Call("set_drink_type", <<drink>>)]
  /\ order' = [order EXCEPT ![a].drink_type = Some(lower(drink))]
  /\ ret' = [ret EXCEPT ![a] = Return(<<"G", "r", "e", "a", "t", "!", " ", "O", "n", "e", " ">> \o drink \o <<" ", "c", "o", "m", "i", "n", "g", " ", "u", "p", ".">>)]
  /\ UNCHANGED <<extra_calls, finalized, files, now, snapshot>>

size_map ==
  { <<<<"s", "m", "a", "l", "l">>, <<"s", "m", "a", "l", "l">>>>, <<<<"t", "a", "l", "l">>, <<"s", "m", "a", "l", "l">>>>,
    <<<<"m", "e", "d", "i", "u", "m">>, <<"m", "e", "d", "i", "u", "m">>>>, <<<<"g", "r", "a", "n", "d", "e">>, <<"m", "e", "d", "i", "u", "m">>>>,
    <<<<"l", "a", "r", "g", "e">>, <<"l", "a", "r", "g", "e">>>>, <<<<"v", "e", "n", "t", "i">>, <<"l", "a", "r", "g", "e">>>> }

\* size_map.get(key, default)
size_map_get(key, default) ==
  IF \E p \in size_map : p[1] = key
  THEN (CHOOSE p \in size_map : p[1] = key)[2]
  ELSE default

\* set_size without the default of the lookup: size_map.get(size.lower())
set_size_no_default(a, size) ==
  LET known == \E p \in size_map : p[1] = lower(size)
      normalized_size == IF known THEN Some(size_map_get(lower(size), lower(size))) ELSE None
  IN  /\ call' = [call EXCEPT ![a] = Call("set_size", <<size>>)]
      /\ order' = [order EXCEPT ![a].size = normalized_size]
      /\ ret' = [ret EXCEPT ![a] = Return(<<"P", "e", "r", "f", "e", "c", "t", "!", " ", "A", " ">> \o str(normalized_size) \o <<" ", "i", "t", " ", "i", "s", ".">>)]
      /\ UNCHANGED <<extra_calls, finalized, files, now, snapshot>>

\* set_size looking the argument up as typed: size_map.get(size, size.lower())
set_size_raw_key(a, size) ==
  LET normalized_size == size_map_get(size, lower(size))
  IN  /\ call' = [call EXCEPT ![a] = Call("set_size", <<size>>)]
      /\ order' = [order EXCEPT ![a].size = Some(normalized_size)]
      /\ ret' = [ret EXCEPT ![a] = Return(<<"P", "e", "r", "f", "e", "c", "t", "!", " ", "A", " ">> \o normalized_size \o <<" ", "i", "t", " ", "i", "s", ".">>)]
      /\ UNCHANGED <<extra_calls, finalized, files, now, snapshot>>

set_size(a, size) ==
  LET normalized_size == size_map_get(lower(size), lower(size))
  IN  /\ call' = [call EXCEPT ![a] = Call("set_size", <<size>>)]
      /\ order' = [order EXCEPT ![a].size = Some(normalized_size)]
      /\ ret' = [ret EXCEPT ![a] = Return(<<"P", "e", "r", "f", "e", "c", "t", "!", " ", "A", " ">> \o normalized_size \o <<" ", "i", "t", " ", "i", "s", ".">>)]
      /\ UNCHANGED <<extra_calls, finalized, files, now, snapshot>>

set_milk(a, milk) ==
  /\ call' = [call EXCEPT ![a] = Call("set_milk", <<milk>>)]
  /\ order' = [order EXCEPT ![a].milk = Some(lower(milk))]
  /\ ret' = [ret EXCEPT ![a] = Return(<<"G", "o", "t", " ", "i", "t", "!", " ">> \o milk \o <<" ", "f", "o", "r", " ", "y", "o", "u", "r", " ", "d", "r", "i", "n", "k", ".">>)]
  /\ UNCHANGED <<extra_calls, finalized, files, now, snapshot>>

\* add_extra testing the argument as typed: extra not in self.order.extras
add_extra_raw_test(a, extra) ==
  /\ call' = [call EXCEPT ![a] = Call("add_extra", <<extra>>)]
  /\ Len(extra_calls[a]) < MaxExtraCalls
  /\ extra_calls' = [extra_calls EXCEPT ![a] = Append(@, extra)]
  /\ IF ~in_list(extra, order[a].extras)
     THEN /\ order' = [order EXCEPT ![a].extras = Append(@, lower(extra))]
          /\ ret' = [ret EXCEPT ![a] = Return(<<"A", "d", "d", "e", "d", " ">> \o extra \o <<" ", "t", "o", " ", "y", "o", "u", "r", " ", "o", "r", "d", "e", "r", "!">>)]
     ELSE /\ order' = order
          /\ ret' = [ret EXCEPT ![a] =
                       Return(<<"Y", "o", "u", " ", "a", "l", "r", "e", "a", "d", "y", " ", "h", "a", "v", "e", " ">> \o extra \o <<" ", "i", "n", " ", "y", "o", "u", "r", " ", "o", "r", "d", "e", "r", ".">>)]
  /\ UNCHANGED <<finalized, files, now, snapshot>>

add_extra(a, extra) ==
  /\ call' = [call EXCEPT ![a] = Call("add_extra", <<extra>>)]
  /\ Len(extra_calls[a]) < MaxExtraCalls
  /\ extra_calls' = [extra_calls EXCEPT ![a] = Append(@, extra)]
  /\ IF ~in_list(lower(extra), order[a].extras)
     THEN /\ order' = [order EXCEPT ![a].extras = Append(@, lower(extra))]
          /\ ret' = [ret EXCEPT ![a] = Return(<<"A", "d", "d", "e", "d", " ">> \o extra \o <<" ", "t", "o", " ", "y", "o", "u", "r", " ", "o", "r", "d", "e", "r", "!">>)]
     ELSE /\ order' = order
          /\ ret' = [ret EXCEPT ![a] =
                       Return(<<"Y", "o", "u", " ", "a", "l", "r", "e", "a", "d", "y", " ", "h", "a", "v", "e", " ">> \o extra \o <<" ", "i", "n", " ", "y", "o", "u", "r", " ", "o", "r", "d", "e", "r", ".">>)]
  /\ UNCHANGED <<finalized, files, now, snapshot>>

\* set_name keeping the old name when the argument is empty: if name: ...
set_name_ignores_empty(a, name) ==
  /\ call' = [call EXCEPT ![a] = Call("set_name", <<name>>)]
  /\ order' = [order EXCEPT ![a].name = IF name = <<>> THEN @ ELSE Some(title(name))]
  /\ ret' = [ret EXCEPT ![a] = Return(<<"T", "h", "a", "n", "k", "s", ",", " ">> \o name \o <<"!">>)]
  /\ UNCHANGED <<extra_calls, finalized, files, now, snapshot>>

\* str.capitalize(): the first character upper-cased, the others lower-cased
capitalize(s) ==
  [i \in 1..Len(s) |-> IF i = 1 THEN upper_char(s[i]) ELSE lower_char(s[i])]

\* set_name with name.capitalize() in place of name.title()
set_name_capitalize(a, name) ==
  /\ call' = [call EXCEPT ![a] = Call("set_name", <<name>>)]
  /\ order' = [order EXCEPT ![a].name = Some(capitalize(name))]
  /\ ret' = [ret EXCEPT ![a] = Return(<<"T", "h", "a", "n", "k", "s", ",", " ">> \o name \o <<"!">>)]
  /\ UNCHANGED <<extra_calls, finalized, files, now, snapshot>>

set_name(a, name) ==
  /\ call' = [call EXCEPT ![a] = Call("set_name", <<name>>)]
  /\ order' = [order EXCEPT ![a].name = Some(title(name))]
  /\ ret' = [ret EXCEPT ![a] = Return(<<"T", "h", "a", "n", "k", "s", ",", " ">> \o name \o <<"!">>)]
  /\ UNCHANGED <<extra_calls, finalized, files, now, snapshot>>

\* check_order answering with complete_order's wording when a slot is missing
check_order_other_wording(a) ==
  /\ call' = [call EXCEPT ![a] = Call("check_order", <<>>)]
  /\ IF is_complete(a)
     THEN ret' = [ret EXCEPT ![a] =
                    Return(<<"Y", "o", "u", "r", " ", "o", "r", "d", "e", "r", " ", "i", "s", " ", "c", "o", "m", "p", "l", "e", "t", "e", "!", " ">> \o format_order_summary(a))]
     ELSE ret' = [ret EXCEPT ![a] =
                    Return(<<"I", " ", "s", "t", "i", "l", "l", " ", "n", "e", "e", "d", " ", "t", "h", "e", " ", "f", "o", "l", "l", "o", "w", "i", "n", "g", " ", "i", "n", "f", "o", "r", "m", "a", "t", "i", "o", "n", ":", " ">>
                             \o join(<<",", " ">>, get_missing_fields(a)))]
  /\ UNCHANGED <<order, extra_calls, finalized, files, now, snapshot>>

check_order(a) ==
  /\ call' = [call EXCEPT ![a] = Call("check_order", <<>>)]
  /\ IF is_complete(a)
     THEN ret' = [ret EXCEPT ![a] =
                    Return(<<"Y", "o", "u", "r", " ", "o", "r", "d", "e", "r", " ", "i", "s", " ", "c", "o", "m", "p", "l", "e", "t", "e", "!", " ">> \o format_order_summary(a))]
     ELSE ret' = [ret EXCEPT ![a] =
                    Return(<<"I", " ", "s", "t", "i", "l", "l", " ", "n", "e", "e", "d", ":", " ">> \o join(<<",", " ">>, get_missing_fields(a)))]
  /\ UNCHANGED <<order, extra_calls, finalized, files, now, snapshot>>

\* f"order_{timestamp}.json", timestamp = strftime("%Y%m%d_%H%M%S") of clock value t
order_filename(t) == <<"order_", t, ".json">>

\* A file that open(filename, "w") created or truncated and json.dump did not
\* finish: empty or cut short.
PartialFile == [complete |-> FALSE, json |-> <<>>]
\* A file holding the whole dump of record d.
JsonFile(d) == [complete |-> TRUE, json |-> <<d>>]

\* What open() and json.dump() can do: succeed, or raise OSError (permission
\* denied, disk full) at the open or in the middle of the dump.
IoOutcomes == {"ok", "open_error", "dump_error"}

\* complete_order catching the error of the write and answering as if saved:
\* try: ... except OSError: pass
complete_order_swallows_error(a, d, io) ==
  /\ call' = [call EXCEPT ![a] = Call("complete_order", <<>>)]
  /\ IF ~is_complete(a)
     THEN /\ ret' = [ret EXCEPT ![a] =
                       Return(<<"I", " ", "s", "t", "i", "l", "l", " ", "n", "e", "e", "d", " ", "t", "h", "e", " ", "f", "o", "l", "l", "o", "w", "i", "n", "g", " ", "i", "n", "f", "o", "r", "m", "a", "t", "i", "o", "n", ":", " ">>
                                \o join(<<",", " ">>, get_missing_fields(a)))]
          /\ UNCHANGED <<order, extra_calls, finalized, files, now, snapshot>>
     ELSE LET order_dict == to_dict(a, now)
              timestamp == now + d
              filename == order_filename(timestamp)
          IN  /\ timestamp <= MaxTime
              /\ now' = timestamp
              /\ CASE io = "open_error" -> UNCHANGED files
                   [] io = "dump_error" -> files' = (filename :> PartialFile) @@ files
                   [] OTHER -> files' = (filename :> JsonFile(read_dict(order_dict))) @@ files
              /\ finalized' = [finalized EXCEPT ![a] = TRUE]
              /\ ret' = [ret EXCEPT ![a] =
                           Return(<<"P", "e", "r", "f", "e", "c", "t", "!", " ", "Y", "o", "u", "r", " ", "o", "r", "d", "e", "r", " ", "i", "s", " ", "c", "o", "m", "p", "l", "e", "t", "e", ".", " ">>
                                    \o format_order_summary(a)
                                    \o <<" ", "W", "e", "'", "l", "l", " ", "h", "a", "v", "e", " ", "t", "h", "a", "t", " ", "r", "e", "a", "d", "y", " ", "f", "o", "r", " ", "y", "o", "u", " ", "s", "h", "o", "r", "t", "l", "y", ",", " ">>
                                    \o str(order[a].name) \o <<"!">>)]
              /\ UNCHANGED <<order, extra_calls, snapshot>>

\* complete_order: d is the time that passes between the two datetime.now()
\* calls (lines 39 and 166), io the outcome of the write.
complete_order(a, d, io) ==
  /\ call' = [call EXCEPT ![a] = Call("complete_order", <<>>)]
  /\ IF ~is_complete(a)
     THEN /\ ret' = [ret EXCEPT ![a] =
                       Return(<<"I", " ", "s", "t", "i", "l", "l", " ", "n", "e", "e", "d", " ", "t", "h", "e", " ", "f", "o", "l", "l", "o", "w", "i", "n", "g", " ", "i", "n", "f", "o", "r", "m", "a", "t", "i", "o", "n", ":", " ">>
                                \o join(<<",", " ">>, get_missing_fields(a)))]
          /\ UNCHANGED <<order, extra_calls, finalized, files, now, snapshot>>
     ELSE LET order_dict == to_dict(a, now)
              timestamp == now + d
              filename == order_filename(timestamp)
          IN  /\ timestamp <= MaxTime
              /\ now' = timestamp
              /\ CASE io = "open_error" ->
                        /\ ret' = [ret EXCEPT ![a] = Raise(<<"O", "S", "E", "r", "r", "o", "r">>)]
                        /\ UNCHANGED <<files, finalized>>
                   [] io = "dump_error" ->
                        /\ files' = (filename :> PartialFile) @@ files
                        /\ ret' = [ret EXCEPT ![a] = Raise(<<"O", "S", "E", "r", "r", "o", "r">>)]
                        /\ UNCHANGED finalized
                   [] OTHER ->
                        /\ files' = (filename :> JsonFile(read_dict(order_dict))) @@ files
                        /\ finalized' = [finalized EXCEPT ![a] = TRUE]
                        /\ ret' = [ret EXCEPT ![a] =
                                     Return(<<"P", "e", "r", "f", "e", "c", "t", "!", " ", "Y", "o", "u", "r", " ", "o", "r", "d", "e", "r", " ", "i", "s", " ", "c", "o", "m", "p", "l", "e", "t", "e", ".", " ">>
                                              \o format_order_summary(a)
                                              \o <<" ", "W", "e", "'", "l", "l", " ", "h", "a", "v", "e", " ", "t", "h", "a", "t", " ", "r", "e", "a", "d", "y", " ", "f", "o", "r", " ", "y", "o", "u", " ", "s", "h", "o", "r", "t", "l", "y", ",", " ">>
                                              \o str(order[a].name) \o <<"!">>)]
              /\ UNCHANGED <<order, extra_calls, snapshot>>

\* The wall clock reaches the next second.
Tick ==
  /\ now < MaxTime
  /\ now' = now + 1
  /\ UNCHANGED <<order, extra_calls, finalized, call, ret, files, snapshot>>

\* ---------------------------------------------------------- specifications
Init ==
  /\ order = [a \in Agents |-> OrderState_init]
  /\ extra_calls = [a \in Agents |-> <<>>]
  /\ finalized = [a \in Agents |-> FALSE]
  /\ call = [a \in Agents |-> NoCall]
  /\ ret = [a \in Agents |-> NoReply]
  /\ files = <<>>
  /\ now = 0
  /\ snapshot = <<>>

\* Spec: one conversation, every action, the arguments of the spec's first
\* scenario, one alternative per accumulating or normalized slot, and the
\* empty string as a name.
DrinkArgs == { <<"L", "a", "t", "t", "e">> }
SizeArgs == { <<"v", "e", "n", "t", "i">>, <<"X", "L">> }
MilkArgs == { <<"O", "a", "t", " ", "M", "i", "l", "k">> }
ExtraArgs == { <<"W", "h", "i", "p", "p", "e", "d", " ", "C", "r", "e", "a", "m">>, <<"w", "h", "i", "p", "p", "e", "d", " ", "c", "r", "e", "a", "m">> }
NameArgs == { <<"j", "a", "n", "e">>, <<>> }

Next ==
  \/ \E drink \in DrinkArgs : set_drink_type(1, drink)
  \/ \E size \in SizeArgs : set_size(1, size)
  \/ \E milk \in MilkArgs : set_milk(1, milk)
  \/ \E extra \in ExtraArgs : add_extra(1, extra)
  \/ \E name \in NameArgs : set_name(1, name)
  \/ check_order(1)
  \/ \E d \in {0, 1}, io \in IoOutcomes : complete_order(1, d, io)
  \/ Tick

Spec == Init /\ [][Next]_vars

\* SpecSlots: one conversation up to (not including) complete_order, with
\* arguments in several casings, unrecognized sizes and the empty string.
SlotDrinkArgs == { <<"L", "a", "t", "t", "e">>, <<"M", "O", "C", "H", "A">>, <<>> }
SlotSizeArgs ==
  { <<"s", "m", "a", "l", "l">>, <<"T", "A", "L", "L">>, <<"M", "e", "d", "i", "u", "m">>, <<"g", "r", "a", "n", "d", "e">>, <<"L", "A", "R", "G", "E">>, <<"V", "e", "n", "t", "i">>, <<"X", "L">>, <<>> }
SlotMilkArgs == { <<"O", "a", "t", " ", "M", "i", "l", "k">>, <<"S", "O", "Y">>, <<>> }
SlotExtraArgs == { <<"W", "h", "i", "p", "p", "e", "d", " ", "C", "r", "e", "a", "m">>, <<"w", "h", "i", "p", "p", "e", "d", " ", "c", "r", "e", "a", "m">>, <<"C", "i", "n", "n", "a", "m", "o", "n">> }
SlotNameArgs == { <<"j", "a", "n", "e">>, <<"b", "O", "B", " ", "o", "'", "n", "e", "i", "l">>, <<>> }

NextSlots ==
  \/ \E drink \in SlotDrinkArgs : set_drink_type(1, drink)
  \/ \E size \in SlotSizeArgs : set_size(1, size)
  \/ \E milk \in SlotMilkArgs : set_milk(1, milk)
  \/ \E extra \in SlotExtraArgs : add_extra(1, extra)
  \/ \E name \in SlotNameArgs : set_name(1, name)
  \/ check_order(1)

SpecSlots == Init /\ [][NextSlots]_vars


\* SpecSnapshot: one conversation before complete_order, and a caller of
\* OrderState.to_dict that keeps the dict it got.
NextSnapshot ==
  \/ \E drink \in DrinkArgs : set_drink_type(1, drink)
  \/ \E size \in SizeArgs : set_size(1, size)
  \/ \E milk \in MilkArgs : set_milk(1, milk)
  \/ \E extra \in ExtraArgs \cup { <<"C", "i", "n", "n", "a", "m", "o", "n">> } : add_extra(1, extra)
  \/ \E name \in NameArgs : set_name(1, name)
  \/ call_to_dict(1)

SpecSnapshot == Init /\ [][NextSnapshot]_vars

\* SpecTwo: two conversations of one worker at the same time, each with its
\* own BaristaAgent; they share the working directory and the clock.
TwoNames == << <<"j", "a", "n", "e">>, <<"b", "O", "B", " ", "o", "'", "n", "e", "i", "l">> >>

NextTwo ==
  \/ \E a \in Agents :
       \/ \E drink \in DrinkArgs : set_drink_type(a, drink)
       \/ set_size(a, <<"v", "e", "n", "t", "i">>)
       \/ \E milk \in MilkArgs : set_milk(a, milk)
       \/ set_name(a, TwoNames[a])
       \/ \E d \in {0, 1} : complete_order(a, d, "ok")
  \/ Tick

SpecTwo == Init /\ [][NextTwo]_vars

\* ------------------------------------------------- what the claims refer to
\* A required slot is unset when it was never written or holds the empty string.
Unset(v) == v = None \/ v = Some(<<>>)

AllRequiredSet(a) ==
  /\ ~Unset(order[a].drink_type)
  /\ ~Unset(order[a].size)
  /\ ~Unset(order[a].milk)
  /\ ~Unset(order[a].name)

\* The required slots with their labels, in the documented order.
RequiredFields ==
  << <<"drink_type", <<"d", "r", "i", "n", "k", " ", "t", "y", "p", "e">>>>, <<"size", <<"s", "i", "z", "e">>>>,
     <<"milk", <<"m", "i", "l", "k", " ", "p", "r", "e", "f", "e", "r", "e", "n", "c", "e">>>>, <<"name", <<"n", "a", "m", "e", " ", "f", "o", "r", " ", "t", "h", "e", " ", "o", "r", "d", "e", "r">>>> >>

ExpectedMissing(a) ==
  LET unset == SelectSeq(RequiredFields, LAMBDA p : Unset(order[a][p[1]]))
  IN  [i \in 1..Len(unset) |-> unset[i][2]]

\* sub occurs in s
Contains(s, sub) ==
  \E i \in 0..(Len(s) - Len(sub)) : SubSeq(s, i + 1, i + Len(sub)) = sub

\* r is s with every upper-case letter replaced by its lower-case letter
IsLowerCaseOf(r, s) ==
  /\ Len(r) = Len(s)
  /\ \A i \in 1..Len(s) : ~is_upper(r[i]) /\ upper_char(r[i]) = upper_char(s[i])

\* r is s with the first letter of every word upper-cased and the others lower-cased
IsTitleCaseOf(r, s) ==
  /\ Len(r) = Len(s)
  /\ \A i \in 1..Len(s) :
       /\ lower_char(r[i]) = lower_char(s[i])
       /\ IF i = 1 \/ ~is_cased(s[i - 1]) THEN ~is_lower(r[i]) ELSE ~is_upper(r[i])

CaseInsensitiveEq(x, y) ==
  /\ Len(x) = Len(y)
  /\ \A i \in 1..Len(x) : upper_char(x[i]) = upper_char(y[i])

\* The positions in calls of the arguments that are not case-insensitively
\* equal to an earlier one, in increasing order.
FirstSeenAt(calls) ==
  SelectSeq([k \in 1..Len(calls) |-> k],
            LAMBDA k : \A m \in 1..(k - 1) : ~CaseInsensitiveEq(calls[m], calls[k]))

AllDrinkArgs == DrinkArgs \cup SlotDrinkArgs
AllSizeArgs == SizeArgs \cup SlotSizeArgs
AllMilkArgs == MilkArgs \cup SlotMilkArgs
AllExtraArgs == ExtraArgs \cup SlotExtraArgs
AllNameArgs == NameArgs \cup SlotNameArgs

\* The files of the working directory that hold a whole record.
Records == { fn \in DOMAIN files : files[fn].complete }

\* --------------------------------------------------------------------- C1
\* C1: complete_order called on a complete order whose write does not fail
\* writes exactly one file, every other file is left as it was, the file holds
\* one whole record whose drinkType, size, milk, extras and name are the
\* order's field values at the call, and the call returns the success message
\* holding the formatted summary and the title-cased name.
C1_FinalizePersistsCurrentOrder ==
  [][\A a \in Agents : \A d \in {0, 1} :
       (AllRequiredSet(a) /\ complete_order(a, d, "ok")) =>
          /\ \E fn \in DOMAIN files' :
               /\ \A g \in DOMAIN files : g # fn => g \in DOMAIN files' /\ files'[g] = files[g]
               /\ DOMAIN files' \subseteq DOMAIN files \cup {fn}
               /\ files'[fn].complete
               /\ Len(files'[fn].json) = 1
               /\ files'[fn].json[1].drinkType = order[a].drink_type
               /\ files'[fn].json[1].size = order[a].size
               /\ files'[fn].json[1].milk = order[a].milk
               /\ files'[fn].json[1].extras = order[a].extras
               /\ files'[fn].json[1].name = order[a].name
          /\ ret'[a].kind = "return"
          /\ ret'[a].value =
               <<"P", "e", "r", "f", "e", "c", "t", "!", " ", "Y", "o", "u", "r", " ", "o", "r", "d", "e", "r", " ", "i", "s", " ", "c", "o", "m", "p", "l", "e", "t", "e", ".", " ">> \o format_order_summary(a)
                 \o <<" ", "W", "e", "'", "l", "l", " ", "h", "a", "v", "e", " ", "t", "h", "a", "t", " ", "r", "e", "a", "d", "y", " ", "f", "o", "r", " ", "y", "o", "u", " ", "s", "h", "o", "r", "t", "l", "y", ",", " ">> \o order[a].name[1] \o <<"!">>
          /\ Contains(ret'[a].value, format_order_summary(a))
          /\ \E n \in AllNameArgs :
               IsTitleCaseOf(order[a].name[1], n) /\ Contains(ret'[a].value, order[a].name[1])
    ]_vars

\* An order with an extra was saved and the success message returned.
C1_Witness ==
  /\ call[1].op = "complete_order"
  /\ finalized[1]
  /\ order[1].extras # <<>>
  /\ \E fn \in Records : files[fn].json[1].extras = order[1].extras
  /\ ret[1].kind = "return"
  /\ Contains(ret[1].value, <<"P", "e", "r", "f", "e", "c", "t", "!", " ", "Y", "o", "u", "r", " ", "o", "r", "d", "e", "r", " ", "i", "s", " ", "c", "o", "m", "p", "l", "e", "t", "e", ".", " ", "O", "n", "e", " ", "l", "a", "r", "g", "e", " ", "l", "a", "t", "t", "e">>)

\* --------------------------------------------------------------------- C2
\* C2: complete_order called while a required slot is unset creates or changes
\* no file, leaves every field of the order as it was and returns (does not
\* raise) the message that lists the missing fields.
C2_IncompleteFinalizeIsReadOnly ==
  [][\A a \in Agents : \A d \in {0, 1} : \A io \in IoOutcomes :
       (~AllRequiredSet(a) /\ complete_order(a, d, io)) =>
          /\ files' = files
          /\ order' = order
          /\ ret'[a] = Return(<<"I", " ", "s", "t", "i", "l", "l", " ", "n", "e", "e", "d", " ", "t", "h", "e", " ", "f", "o", "l", "l", "o", "w", "i", "n", "g", " ", "i", "n", "f", "o", "r", "m", "a", "t", "i", "o", "n", ":", " ">>
                                \o join(<<",", " ">>, ExpectedMissing(a)))
    ]_vars

\* complete_order answered with the missing fields.
C2_Witness ==
  /\ call[1].op = "complete_order"
  /\ ~AllRequiredSet(1)
  /\ ret[1].kind = "return"
  /\ Contains(ret[1].value, <<"I", " ", "s", "t", "i", "l", "l", " ", "n", "e", "e", "d", " ", "t", "h", "e", " ", "f", "o", "l", "l", "o", "w", "i", "n", "g", " ", "i", "n", "f", "o", "r", "m", "a", "t", "i", "o", "n", ":", " ">>)

\* --------------------------------------------------------------------- C3
\* C3: once complete_order has saved the order, no later action changes a
\* field of the order.
C3_FinalizedOrderImmutable ==
  [][\A a \in Agents : finalized[a] => order'[a] = order[a]]_vars

\* --------------------------------------------------------------------- C4
\* C4: once complete_order has saved the order, a further complete_order call
\* writes nothing.
C4_PersistedExactlyOnce ==
  [][\A a \in Agents : \A d \in {0, 1} : \A io \in IoOutcomes :
       (finalized[a] /\ complete_order(a, d, io)) => files' = files]_vars

\* --------------------------------------------------------------------- C5
\* C5: is_complete() is true exactly when drink_type, size, milk and name are
\* all non-empty, whatever extras holds.
C5_CompleteIffRequiredSet ==
  \A a \in Agents : is_complete(a) <=> AllRequiredSet(a)

\* A complete order without extras.
C5_Witness == is_complete(1) /\ order[1].extras = <<>>

\* --------------------------------------------------------------------- C6
\* C6: get_missing_fields() returns exactly the labels of the unset required
\* slots, each once, in the order drink type, size, milk preference, name for
\* the order.
C6_MissingFieldsFixedOrder ==
  \A a \in Agents : get_missing_fields(a) = ExpectedMissing(a)

\* Only drink and size are set.
C6_Witness ==
  /\ ~Unset(order[1].drink_type)
  /\ ~Unset(order[1].size)
  /\ get_missing_fields(1) = << <<"m", "i", "l", "k", " ", "p", "r", "e", "f", "e", "r", "e", "n", "c", "e">>, <<"n", "a", "m", "e", " ", "f", "o", "r", " ", "t", "h", "e", " ", "o", "r", "d", "e", "r">> >>

\* --------------------------------------------------------------------- C7
\* C7: extras always is the lower-cased arguments of the add_extra calls made
\* so far without case-insensitive repetitions, in first-seen order, so it
\* holds no two case-insensitively equal entries (and a repeated argument
\* leaves it as it was); a call whose argument was given before in some casing
\* returns the "already have" message, any other call the "added" message.
C7_ExtrasUniqueFirstSeen ==
  \A a \in Agents :
    LET calls == extra_calls[a]
        first == FirstSeenAt(calls)
        extras == order[a].extras
    IN  /\ Len(extras) = Len(first)
        /\ \A i \in 1..Len(first) : IsLowerCaseOf(extras[i], calls[first[i]])
        /\ \A i, j \in 1..Len(extras) : i # j => ~CaseInsensitiveEq(extras[i], extras[j])
        /\ call[a].op = "add_extra" =>
             LET extra == call[a].args[1]
             IN  /\ calls # <<>>
                 /\ calls[Len(calls)] = extra
                 /\ ret[a] =
                      IF \E m \in 1..(Len(calls) - 1) : CaseInsensitiveEq(calls[m], extra)
                      THEN Return(<<"Y", "o", "u", " ", "a", "l", "r", "e", "a", "d", "y", " ", "h", "a", "v", "e", " ">> \o extra \o <<" ", "i", "n", " ", "y", "o", "u", "r", " ", "o", "r", "d", "e", "r", ".">>)
                      ELSE Return(<<"A", "d", "d", "e", "d", " ">> \o extra \o <<" ", "t", "o", " ", "y", "o", "u", "r", " ", "o", "r", "d", "e", "r", "!">>)

\* add_extra("Whipped Cream") then add_extra("whipped cream").
C7_Witness ==
  /\ extra_calls[1] = << <<"W", "h", "i", "p", "p", "e", "d", " ", "C", "r", "e", "a", "m">>, <<"w", "h", "i", "p", "p", "e", "d", " ", "c", "r", "e", "a", "m">> >>
  /\ Len(order[1].extras) = 1
  /\ ret[1] = Return(<<"Y", "o", "u", " ", "a", "l", "r", "e", "a", "d", "y", " ", "h", "a", "v", "e", " ", "w", "h", "i", "p", "p", "e", "d", " ", "c", "r", "e", "a", "m", " ", "i", "n", " ", "y", "o", "u", "r", " ", "o", "r", "d", "e", "r", ".">>)

\* --------------------------------------------------------------------- C8
\* C8: drink_type, milk and name each hold the value of the last call made on
\* them: a set_drink_type, set_milk or set_name call replaces the slot by its
\* argument lower-cased, lower-cased or title-cased, and no other call changes
\* the slot.
C8_LastCallWins ==
  [][\A a \in Agents :
       /\ call'[a].op = "set_drink_type" =>
            /\ Len(order'[a].drink_type) = 1
            /\ IsLowerCaseOf(order'[a].drink_type[1], call'[a].args[1])
       /\ order'[a].drink_type # order[a].drink_type =>
            \E drink \in AllDrinkArgs : set_drink_type(a, drink)
       /\ call'[a].op = "set_milk" =>
            /\ Len(order'[a].milk) = 1
            /\ IsLowerCaseOf(order'[a].milk[1], call'[a].args[1])
       /\ order'[a].milk # order[a].milk =>
            \E milk \in AllMilkArgs : set_milk(a, milk)
       /\ call'[a].op = "set_name" =>
            /\ Len(order'[a].name) = 1
            /\ IsTitleCaseOf(order'[a].name[1], call'[a].args[1])
       /\ order'[a].name # order[a].name =>
            \E name \in AllNameArgs : set_name(a, name)
    ]_vars

\* set_name("bOB o'neil") on an order whose drink and milk were given in upper
\* or mixed case.
C8_Witness ==
  /\ order[1].drink_type = Some(<<"m", "o", "c", "h", "a">>)
  /\ order[1].milk = Some(<<"s", "o", "y">>)
  /\ order[1].name = Some(<<"B", "o", "b", " ", "O", "'", "N", "e", "i", "l">>)
  /\ ret[1] = Return(<<"T", "h", "a", "n", "k", "s", ",", " ", "b", "O", "B", " ", "o", "'", "n", "e", "i", "l", "!">>)

\* --------------------------------------------------------------------- C9
\* C9: set_size stores small for small and tall, medium for medium and grande,
\* large for large and venti, in any casing, stores every other argument
\* lower-cased, and its confirmation names the stored size.
C9_SizeNormalized ==
  \A a \in Agents :
    call[a].op = "set_size" =>
      /\ Len(order[a].size) = 1
      /\ LET size == call[a].args[1]
             stored == order[a].size[1]
         IN  /\ CASE CaseInsensitiveEq(size, <<"s", "m", "a", "l", "l">>) \/ CaseInsensitiveEq(size, <<"t", "a", "l", "l">>) ->
                       stored = <<"s", "m", "a", "l", "l">>
                  [] CaseInsensitiveEq(size, <<"m", "e", "d", "i", "u", "m">>) \/ CaseInsensitiveEq(size, <<"g", "r", "a", "n", "d", "e">>) ->
                       stored = <<"m", "e", "d", "i", "u", "m">>
                  [] CaseInsensitiveEq(size, <<"l", "a", "r", "g", "e">>) \/ CaseInsensitiveEq(size, <<"v", "e", "n", "t", "i">>) ->
                       stored = <<"l", "a", "r", "g", "e">>
                  [] OTHER -> IsLowerCaseOf(stored, size)
             /\ ret[a] = Return(<<"P", "e", "r", "f", "e", "c", "t", "!", " ", "A", " ">> \o stored \o <<" ", "i", "t", " ", "i", "s", ".">>)

\* set_size("TALL") stored small and confirmed small.
C9_Witness ==
  /\ call[1] = Call("set_size", << <<"T", "A", "L", "L">> >>)
  /\ order[1].size = Some(<<"s", "m", "a", "l", "l">>)
  /\ ret[1] = Return(<<"P", "e", "r", "f", "e", "c", "t", "!", " ", "A", " ", "s", "m", "a", "l", "l", " ", "i", "t", " ", "i", "s", ".">>)

\* -------------------------------------------------------------------- C10
\* C10: check_order changes no field of any order and no file; it returns
\* "Your order is complete! " and the summary when every required slot is set,
\* and otherwise "I still need: " and the missing fields joined by ", ".
C10_CheckOrderReadOnly ==
  [][\A a \in Agents :
       check_order(a) =>
          /\ order' = order
          /\ files' = files
          /\ ret'[a] =
               IF AllRequiredSet(a)
               THEN Return(<<"Y", "o", "u", "r", " ", "o", "r", "d", "e", "r", " ", "i", "s", " ", "c", "o", "m", "p", "l", "e", "t", "e", "!", " ">> \o format_order_summary(a))
               ELSE Return(<<"I", " ", "s", "t", "i", "l", "l", " ", "n", "e", "e", "d", ":", " ">> \o join(<<",", " ">>, ExpectedMissing(a)))
    ]_vars

\* drink "Latte", size "venti", milk "Oat Milk", name "jane", then check_order.
C10_Witness ==
  /\ call[1].op = "check_order"
  /\ order[1].extras = <<>>
  /\ ret[1] = Return(<<"Y", "o", "u", "r", " ", "o", "r", "d", "e", "r", " ", "i", "s", " ", "c", "o", "m", "p", "l", "e", "t", "e", "!", " ", "O", "n", "e", " ", "l", "a", "r", "g", "e", " ", "l", "a", "t", "t", "e", " ", "w", "i", "t", "h", " ", "o", "a", "t", " ", "m", "i", "l", "k", " ", "f", "o", "r", " ", "J", "a", "n", "e">>)

\* -------------------------------------------------------------------- C11
\* The summary of a complete order with the extras clause introduced by conn:
\* "One {size} {drink_type} with {milk}", then, when extras is not empty, conn
\* and the extras joined by ", ", then " for {name}".
SummaryText(a, conn) ==
  LET head == <<"O", "n", "e", " ">> \o order[a].size[1] \o <<" ">> \o order[a].drink_type[1]
                \o <<" ", "w", "i", "t", "h", " ">> \o order[a].milk[1]
      tail == <<" ", "f", "o", "r", " ">> \o order[a].name[1]
  IN  IF order[a].extras = <<>>
      THEN head \o tail
      ELSE head \o conn \o join(<<",", " ">>, order[a].extras) \o tail

\* The summary of every complete order is SummaryText with conn, and the
\* replies of check_order and of a successful complete_order on it hold that
\* same text.
SummaryRendered(conn) ==
  \A a \in Agents :
    AllRequiredSet(a) =>
      /\ format_order_summary(a) = SummaryText(a, conn)
      /\ call[a].op = "check_order" =>
           ret[a] = Return(<<"Y", "o", "u", "r", " ", "o", "r", "d", "e", "r", " ", "i", "s", " ", "c", "o", "m", "p", "l", "e", "t", "e", "!", " ">> \o SummaryText(a, conn))
      /\ (call[a].op = "complete_order" /\ ret[a].kind = "return") =>
           ret[a] = Return(<<"P", "e", "r", "f", "e", "c", "t", "!", " ", "Y", "o", "u", "r", " ", "o", "r", "d", "e", "r", " ", "i", "s", " ", "c", "o", "m", "p", "l", "e", "t", "e", ".", " ">> \o SummaryText(a, conn)
                             \o <<" ", "W", "e", "'", "l", "l", " ", "h", "a", "v", "e", " ", "t", "h", "a", "t", " ", "r", "e", "a", "d", "y", " ", "f", "o", "r", " ", "y", "o", "u", " ", "s", "h", "o", "r", "t", "l", "y", ",", " ">>
                             \o order[a].name[1] \o <<"!">>)

\* C11 as stated: the extras clause is " and " followed by the extras joined
\* by ", ", and is omitted when extras is empty; check_order and
\* complete_order render the same summary.
C11_SummaryWithAnd == SummaryRendered(<<" ", "a", "n", "d", " ">>)

\* C11 amended: the extras clause is " with " followed by the extras joined by
\* ", ", and is omitted when extras is empty; check_order and complete_order
\* render the same summary.
C11_SummaryWithWith == SummaryRendered(<<" ", "w", "i", "t", "h", " ">>)

\* check_order on a complete order that has an extra.
C11_Witness ==
  /\ call[1].op = "check_order"
  /\ ret[1] = Return(<<"Y", "o", "u", "r", " ", "o", "r", "d", "e", "r", " ", "i", "s", " ", "c", "o", "m", "p", "l", "e", "t", "e", "!", " ", "O", "n", "e", " ", "l", "a", "r", "g", "e", " ", "l", "a", "t", "t", "e", " ", "w", "i", "t", "h", " ", "o", "a", "t", " ", "m", "i", "l", "k", " ", "w", "i", "t", "h", " ", "w", "h", "i", "p", "p", "e", "d", " ", "c", "r", "e", "a", "m", " ", "f", "o", "r", " ", "J", "a", "n", "e">>)

\* -------------------------------------------------------------------- C12
\* C12: once every required slot is set, every later action called with a
\* non-empty argument leaves every required slot set, and the order is marked
\* saved only by a complete_order call whose write succeeds and which returns.
C12_CompleteNeverRegresses ==
  [][\A a \in Agents :
       (AllRequiredSet(a) /\ (call'[a].args = <<>> \/ call'[a].args[1] # <<>>)) =>
          /\ AllRequiredSet(a)'
          /\ finalized'[a] # finalized[a] =>
               /\ finalized'[a]
               /\ ret'[a].kind = "return"
               /\ \E d \in {0, 1} : complete_order(a, d, "ok")
    ]_vars

\* A complete order took another size and an extra and is still complete.
C12_Witness ==
  /\ call[1].op = "set_size"
  /\ order[1].size = Some(<<"x", "l">>)
  /\ order[1].extras # <<>>
  /\ AllRequiredSet(1)
  /\ ~finalized[1]

\* -------------------------------------------------------------------- C13
\* C13: when open() or json.dump() fails during complete_order on a complete
\* order, the call raises the error instead of returning (so it does not
\* return the success message), the order is not marked saved by it, and
\* every field of the order is as before the call.
C13_WriteFailurePropagates ==
  [][\A a \in Agents : \A d \in {0, 1} : \A io \in IoOutcomes \ {"ok"} :
       (AllRequiredSet(a) /\ call'[a].op = "complete_order" /\ complete_order(a, d, io)) =>
          /\ ret'[a] = Raise(<<"O", "S", "E", "r", "r", "o", "r">>)
          /\ ~Contains(ret'[a].value, <<"Y", "o", "u", "r", " ", "o", "r", "d", "e", "r", " ", "i", "s", " ", "c", "o", "m", "p", "l", "e", "t", "e">>)
          /\ finalized'[a] = finalized[a]
          /\ order' = order
    ]_vars

\* complete_order on a complete order with an extra ended in OSError.
C13_Witness ==
  /\ call[1].op = "complete_order"
  /\ AllRequiredSet(1)
  /\ order[1].extras # <<>>
  /\ ret[1] = Raise(<<"O", "S", "E", "r", "r", "o", "r">>)

\* -------------------------------------------------------------------- C14
\* C14: every file observable in the working directory holds a whole record;
\* no empty or cut-short file is observable, also after a write that failed
\* between open() and the end of json.dump().
C14_NoPartialFile ==
  \A fn \in DOMAIN files : files[fn].complete

\* -------------------------------------------------------------------- C15
\* C15: the first successful complete_order of an order never writes to a
\* file name that already holds the record of another order, so no saved
\* order's record is overwritten.
C15_OneFilePerOrder ==
  [][\A a \in Agents : \A d \in {0, 1} :
       (/\ AllRequiredSet(a)
        /\ ~finalized[a]
        /\ call'[a].op = "complete_order"
        /\ complete_order(a, d, "ok")) =>
          order_filename(now + d) \notin Records
    ]_vars

\* -------------------------------------------------------------------- C16
\* C16: as long as a caller holds the dict it got from to_dict, no action on
\* the order changes any value read from that dict, its extras included.
C16_SnapshotImmutable ==
  [][(snapshot # <<>> /\ snapshot' = snapshot) =>
       read_dict(snapshot[1])' = read_dict(snapshot[1])]_vars

\* -------------------------------------------------------------------- C17
\* C17: get_missing_fields() is empty exactly when is_complete() is true, so
\* check_order and complete_order answer with a missing-field message exactly
\* when the order is not complete, and that message then names a field.
C17_MissingEmptyIffComplete ==
  \A a \in Agents :
    /\ (get_missing_fields(a) = <<>>) <=> is_complete(a)
    /\ call[a].op = "check_order" =>
         /\ ret[a] = Return(<<"I", " ", "s", "t", "i", "l", "l", " ", "n", "e", "e", "d", ":", " ">> \o join(<<",", " ">>, get_missing_fields(a)))
              <=> ~is_complete(a)
         /\ ret[a] # Return(<<"I", " ", "s", "t", "i", "l", "l", " ", "n", "e", "e", "d", ":", " ">>)
    /\ call[a].op = "complete_order" =>
         /\ ret[a] = Return(<<"I", " ", "s", "t", "i", "l", "l", " ", "n", "e", "e", "d", " ", "t", "h", "e", " ", "f", "o", "l", "l", "o", "w", "i", "n", "g", " ", "i", "n", "f", "o", "r", "m", "a", "t", "i", "o", "n", ":", " ">>
                              \o join(<<",", " ">>, get_missing_fields(a)))
              <=> ~is_complete(a)
         /\ ret[a] # Return(<<"I", " ", "s", "t", "i", "l", "l", " ", "n", "e", "e", "d", " ", "t", "h", "e", " ", "f", "o", "l", "l", "o", "w", "i", "n", "g", " ", "i", "n", "f", "o", "r", "m", "a", "t", "i", "o", "n", ":", " ">>)

\* complete_order on an order whose name was set to the empty string.
C17_Witness ==
  /\ call[1].op = "complete_order"
  /\ order[1].name = Some(<<>>)
  /\ ret[1] = Return(<<"I", " ", "s", "t", "i", "l", "l", " ", "n", "e", "e", "d", " ", "t", "h", "e", " ", "f", "o", "l", "l", "o", "w", "i", "n", "g", " ", "i", "n", "f", "o", "r", "m", "a", "t", "i", "o", "n", ":", " ", "n", "a", "m", "e", " ", "f", "o", "r", " ", "t", "h", "e", " ", "o", "r", "d", "e", "r">>)

\* -------------------------------------------------------------------- C18
\* C18: every whole record in the working directory has a non-empty
\* drinkType, size, milk and name: complete_order never wrote the record of
\* an order that was incomplete at the call.
C18_PersistedRecordsComplete ==
  \A fn \in Records :
    /\ ~Unset(files[fn].json[1].drinkType)
    /\ ~Unset(files[fn].json[1].size)
    /\ ~Unset(files[fn].json[1].milk)
    /\ ~Unset(files[fn].json[1].name)

\* A record was written, the name was then set to the empty string, and
\* complete_order was called again.
C18_Witness ==
  /\ Records # {}
  /\ call[1].op = "complete_order"
  /\ order[1].name = Some(<<>>)

\* -------------------------------------------------------------------- C19
\* The orders differ between the two states of the step at most in slot f of
\* order a.
OnlySlotChanges(a, f) ==
  /\ \A b \in Agents \ {a} : order'[b] = order[b]
  /\ \A g \in {"drink_type", "size", "milk", "extras", "name"} \ {f} :
       order'[a][g] = order[a][g]

\* C19: set_drink_type, set_size, set_milk and set_name change no slot but
\* drink_type, size, milk and name respectively; add_extra changes no slot but
\* extras and keeps the entries extras had, in their order, at the front; a
\* complete_order that saves the order changes no slot.
C19_ActionsChangeOwnSlotOnly ==
  [][\A a \in Agents :
       /\ (call'[a].op = "set_drink_type"
             /\ \E drink \in AllDrinkArgs : set_drink_type(a, drink)) =>
            OnlySlotChanges(a, "drink_type")
       /\ (call'[a].op = "set_size"
             /\ \E size \in AllSizeArgs : set_size(a, size)) =>
            OnlySlotChanges(a, "size")
       /\ (call'[a].op = "set_milk"
             /\ \E milk \in AllMilkArgs : set_milk(a, milk)) =>
            OnlySlotChanges(a, "milk")
       /\ (call'[a].op = "set_name"
             /\ \E name \in AllNameArgs : set_name(a, name)) =>
            OnlySlotChanges(a, "name")
       /\ (call'[a].op = "add_extra"
             /\ \E extra \in AllExtraArgs \cup { <<"C", "i", "n", "n", "a", "m", "o", "n">> } : add_extra(a, extra)) =>
            /\ OnlySlotChanges(a, "extras")
            /\ Len(order'[a].extras) >= Len(order[a].extras)
            /\ SubSeq(order'[a].extras, 1, Len(order[a].extras)) = order[a].extras
       /\ (call'[a].op = "complete_order"
             /\ \E d \in {0, 1} : complete_order(a, d, "ok")) =>
            order' = order
    ]_vars

\* set_drink_type on an order whose other slots, extras included, are set.
C19_Witness ==
  /\ call[1].op = "set_drink_type"
  /\ order[1].size # None
  /\ order[1].milk # None
  /\ order[1].name # None
  /\ order[1].extras # <<>>

\* -------------------------------------------------------------------- C20
\* The set action of each required slot.
SetActionOf ==
  << <<"drink_type", "set_drink_type">>, <<"size", "set_size">>,
     <<"milk", "set_milk">>, <<"name", "set_name">> >>

\* What holds of order a after a call: when the last call on it is the set
\* action of a required slot, the call returned, and the slot is set exactly
\* when the argument was not empty, holding the empty string otherwise; and
\* while a required slot holds the empty string the order is not complete and
\* the slot's label is among the missing fields.
EmptyArgumentUnsets(a) ==
  \A i \in 1..Len(SetActionOf) :
    LET f == SetActionOf[i][1]
        label == RequiredFields[i][2]
    IN  /\ call[a].op = SetActionOf[i][2] =>
             /\ ret[a].kind = "return"
             /\ truthy(order[a][f]) <=> call[a].args[1] # <<>>
             /\ call[a].args[1] = <<>> => order[a][f] = Some(<<>>)
        /\ order[a][f] = Some(<<>>) =>
             /\ ~is_complete(a)
             /\ in_list(label, get_missing_fields(a))

\* C20: a set action called with the empty string returns, stores the empty
\* value, and from then on is_complete() is false and get_missing_fields()
\* lists the slot, also when the order was complete before the call; a slot
\* counts as set exactly when its last set call had a non-empty argument.
C20_EmptyStringUnsets ==
  [][\A a \in Agents :
       /\ EmptyArgumentUnsets(a)'
       /\ (/\ is_complete(a)
           /\ call'[a].args = << <<>> >>
           /\ \/ set_drink_type(a, <<>>)
              \/ set_size(a, <<>>)
              \/ set_milk(a, <<>>)
              \/ set_name(a, <<>>)) =>
            /\ ~is_complete(a)'
            /\ get_missing_fields(a)' # <<>>
    ]_vars

\* set_milk("") on an order whose other required slots are set.
C20_Witness ==
  /\ call[1] = Call("set_milk", << <<>> >>)
  /\ order[1].milk = Some(<<>>)
  /\ get_missing_fields(1) = << <<"m", "i", "l", "k", " ", "p", "r", "e", "f", "e", "r", "e", "n", "c", "e">> >>

====
